---- MODULE Spec2Model ----
(***************************************************************************)
(* Billing and ledger core of the document-conversion service:             *)
(* User.use_conversion (charge), add_balance_view (credit), the            *)
(* ConversionPricing.calculate_cost pricing function and the Transaction   *)
(* log.  Money is counted in cents (DecimalField, decimal_places=2).       *)
(*                                                                         *)
(* Every HTTP request is served by a worker.  A worker first loads the     *)
(* User row into an in-memory object (request.user), later writes the      *)
(* whole object back with save(), and then inserts a Transaction row.      *)
(* Each database statement is one atomic step; workers interleave between  *)
(* statements, as the threads / processes of the web server do.            *)
(***************************************************************************)
EXTENDS Integers, Sequences, FiniteSets, TLC

\* ---------------------------------------------------------------- bounds
NumWorkers == 2          \* requests that can be in flight at once
MaxCalls == 3            \* charge / credit calls started in one behaviour
MaxPages == 5            \* largest page count that is priced

\* ------------------------------------------------------ program constants
DefaultBalance == 0          \* User.balance default
DefaultFreeConversions == 3  \* User.free_conversions default

Workers == 1 .. NumWorkers
Users == {"alice"}

\* request inputs: POSTed top-up amounts (cents) and page counts
Amounts == {-50, 0, 50}
PageCounts == {1, 3}

\* ConversionPricing rows the catalogue can hold for docx_to_pdf
FixedPolicy ==
    [pricing_type |-> "fixed", base_price |-> 50, price_per_page |-> 0,
     free_pages |-> 0, minimum_charge |-> 10, max_price_per_file |-> 0]

PagesPolicy ==
    [pricing_type |-> "file_plus_pages", base_price |-> 50,
     price_per_page |-> 10, free_pages |-> 2, minimum_charge |-> 10,
     max_price_per_file |-> 0]

Policies == {FixedPolicy, PagesPolicy}

VARIABLES
    users,          \* User table: user -> [balance, free_conversions]
    transactions,   \* Transaction table, in creation order
    pricing,        \* the ConversionPricing row of docx_to_pdf
    pc,             \* worker -> position in its view
    req,            \* worker -> the request's in-memory state
    calls,          \* calls started so far
    epoch,          \* user -> ledger state when the current batch of
                    \*         overlapping calls began (history variable)
    catalog,        \* operation types that have a ConversionPricing row
    documents,      \* Document table, in creation order: id -> row
    stats,          \* the figures the last dashboard / history page showed
    quote           \* a policy, a page count and the cost computed for them

\* what the ledger operations leave alone
others == <<catalog, documents, stats, quote>>

vars == <<users, transactions, pricing, pc, req, calls, epoch,
          catalog, documents, stats, quote>>

\* ------------------------------------------------------------- helpers
Max(a, b) == IF a >= b THEN a ELSE b
Min(a, b) == IF a <= b THEN a ELSE b

NoReq ==
    [view |-> "none", user |-> "alice", arg |-> 0,
     self |-> [balance |-> 0, free_conversions |-> 0],
     balance_before |-> 0, free_conversions_before |-> 0,
     amount |-> 0, payment_method |-> "none", success |-> FALSE,
     document |-> 0, created |-> FALSE]

\* Nothing shown yet
NoStats ==
    [view |-> "none", user |-> "alice", total_spent |-> 0,
     total_conversions |-> 0, total_added |-> 0,
     free_conversions_used |-> 0]

\* Nothing priced yet
NoQuote ==
    [policy |-> FixedPolicy, page_count |-> 0, cost |-> 0, priced |-> FALSE]

\* calculate_cost charging for the pages below free_pages as negative extra
\* pages (no max(0, ...))
calculate_cost_signed_pages(p, page_count) ==
    LET cost0 ==
            IF p.pricing_type = "fixed" THEN p.base_price
            ELSE IF p.pricing_type = "per_page"
                 THEN p.price_per_page * page_count
            ELSE IF p.pricing_type = "file_plus_pages"
                 THEN p.base_price
                      + (page_count - p.free_pages) * p.price_per_page
            ELSE p.base_price
        cost1 == Max(cost0, p.minimum_charge)
    IN  IF p.max_price_per_file > 0
        THEN Min(cost1, p.max_price_per_file)
        ELSE cost1

\* calculate_cost applying the cap before the minimum charge
calculate_cost_cap_first(p, page_count) ==
    LET cost0 ==
            IF p.pricing_type = "fixed" THEN p.base_price
            ELSE IF p.pricing_type = "per_page"
                 THEN p.price_per_page * page_count
            ELSE IF p.pricing_type = "file_plus_pages"
                 THEN p.base_price
                      + Max(0, page_count - p.free_pages) * p.price_per_page
            ELSE p.base_price
        cost1 == IF p.max_price_per_file > 0
                 THEN Min(cost0, p.max_price_per_file)
                 ELSE cost0
    IN  Max(cost1, p.minimum_charge)

\* ConversionPricing.calculate_cost
calculate_cost(p, page_count) ==
    LET cost0 ==
            IF p.pricing_type = "fixed" THEN p.base_price
            ELSE IF p.pricing_type = "per_page"
                 THEN p.price_per_page * page_count
            ELSE IF p.pricing_type = "file_plus_pages"
                 THEN p.base_price
                      + Max(0, page_count - p.free_pages) * p.price_per_page
            ELSE p.base_price
        cost1 == Max(cost0, p.minimum_charge)
    IN  IF p.max_price_per_file > 0
        THEN Min(cost1, p.max_price_per_file)
        ELSE cost1

\* User.can_convert
can_convert(self) == self.free_conversions > 0 \/ self.balance > 0

\* use_conversion with the insufficient-funds branch still taking the money
\* from the object
use_conversion_debits_refused(self, calculated_cost) ==
    IF self.free_conversions > 0
    THEN [self |-> [self EXCEPT !.free_conversions = @ - 1],
          payment_method |-> "free_conversion", amount |-> 0,
          success |-> TRUE]
    ELSE IF self.balance >= calculated_cost
    THEN [self |-> [self EXCEPT !.balance = @ - calculated_cost],
          payment_method |-> "balance", amount |-> calculated_cost,
          success |-> TRUE]
    ELSE [self |-> [self EXCEPT !.balance = @ - calculated_cost],
          payment_method |-> "balance", amount |-> calculated_cost,
          success |-> FALSE]

\* use_conversion with the two tests in the other order: balance first
use_conversion_balance_first(self, calculated_cost) ==
    IF self.balance >= calculated_cost
    THEN [self |-> [self EXCEPT !.balance = @ - calculated_cost],
          payment_method |-> "balance", amount |-> calculated_cost,
          success |-> TRUE]
    ELSE IF self.free_conversions > 0
    THEN [self |-> [self EXCEPT !.free_conversions = @ - 1],
          payment_method |-> "free_conversion", amount |-> 0,
          success |-> TRUE]
    ELSE [self |-> self,
          payment_method |-> "balance", amount |-> calculated_cost,
          success |-> FALSE]

\* use_conversion reporting amount 0 for a refused charge
use_conversion_refused_amount_zero(self, calculated_cost) ==
    IF self.free_conversions > 0
    THEN [self |-> [self EXCEPT !.free_conversions = @ - 1],
          payment_method |-> "free_conversion", amount |-> 0,
          success |-> TRUE]
    ELSE IF self.balance >= calculated_cost
    THEN [self |-> [self EXCEPT !.balance = @ - calculated_cost],
          payment_method |-> "balance", amount |-> calculated_cost,
          success |-> TRUE]
    ELSE [self |-> self,
          payment_method |-> "balance", amount |-> 0,
          success |-> FALSE]

\* The payment decision of User.use_conversion on the in-memory object:
\* free allowance first, then balance, else insufficient funds.
use_conversion(self, calculated_cost) ==
    IF self.free_conversions > 0
    THEN [self |-> [self EXCEPT !.free_conversions = @ - 1],
          payment_method |-> "free_conversion", amount |-> 0,
          success |-> TRUE]
    ELSE IF self.balance >= calculated_cost
    THEN [self |-> [self EXCEPT !.balance = @ - calculated_cost],
          payment_method |-> "balance", amount |-> calculated_cost,
          success |-> TRUE]
    ELSE [self |-> self,
          payment_method |-> "balance", amount |-> calculated_cost,
          success |-> FALSE]

\* An UPDATE without the WHERE pk = ... condition: every row gets the object
save_every_row(table, u, self) == [v \in DOMAIN table |-> self]

\* Model.save(): UPDATE of every column of the row from the object
save(table, u, self) == [table EXCEPT ![u] = self]

\* Transaction.objects.filter(user=u), oldest first
TransactionsOf(u) == SelectSeq(transactions, LAMBDA t : t.user = u)

\* No request of user u is in flight
Quiet(u) == \A w \in Workers : pc[w] = "idle" \/ req[w].user # u

\* A call that starts while the account is quiet opens a new batch
OpenEpoch(u) ==
    IF Quiet(u)
    THEN [epoch EXCEPT ![u] = [balance |-> users[u].balance,
                               free_conversions |-> users[u].free_conversions,
                               start |-> Len(TransactionsOf(u))]]
    ELSE epoch

\* The Transaction that use_conversion records for the i-th conversion of a
\* new account (paid from the free allowance)
FreeConversionTx(u, i) ==
    [user |-> u, transaction_type |-> "conversion", amount |-> 0,
     payment_method |-> "free_conversion",
     balance_before |-> DefaultBalance, balance_after |-> DefaultBalance,
     free_conversions_before |-> DefaultFreeConversions - (i - 1),
     free_conversions_after |-> DefaultFreeConversions - i,
     is_successful |-> TRUE, document |-> 0]

\* ------------------------------------------------------------------ Init
\* A registered account (balance 0, 3 free conversions) that has already
\* made k conversions one after the other, k = 0 being the new account.
Init ==
    /\ \E k \in 0 .. DefaultFreeConversions :
          /\ users = [u \in Users |->
                        [balance |-> DefaultBalance,
                         free_conversions |-> DefaultFreeConversions - k]]
          /\ transactions = [i \in 1 .. k |-> FreeConversionTx("alice", i)]
          /\ epoch = [u \in Users |->
                        [balance |-> DefaultBalance,
                         free_conversions |-> DefaultFreeConversions - k,
                         start |-> k]]
    /\ pricing \in Policies
    /\ pc = [w \in Workers |-> "idle"]
    /\ req = [w \in Workers |-> NoReq]
    /\ calls = 0
    /\ catalog = {"docx_to_pdf"}
    /\ documents = << >>
    /\ stats = NoStats
    /\ quote = NoQuote

\* --------------------------------------------------------------- actions
\* A conversion request fetches its User object (the `self` of
\* use_conversion) from the database.
ChargeLoad(w, u, page_count) ==
    /\ pc[w] = "idle"
    /\ calls < MaxCalls
    /\ calls' = calls + 1
    /\ epoch' = OpenEpoch(u)
    /\ req' = [req EXCEPT ![w] = [NoReq EXCEPT !.view = "charge", !.user = u,
                                               !.arg = page_count,
                                               !.self = users[u]]]
    /\ pc' = [pc EXCEPT ![w] = "loaded"]
    /\ UNCHANGED <<users, transactions, pricing>>
    /\ UNCHANGED others

\* use_conversion up to and including self.save()
ChargeDecide(w) ==
    /\ pc[w] = "loaded"
    /\ req[w].view = "charge"
    /\ LET r == req[w]
           calculated_cost == calculate_cost(pricing, r.arg)
           d == use_conversion(r.self, calculated_cost)
       IN  /\ req' = [req EXCEPT ![w] =
                        [r EXCEPT !.balance_before = r.self.balance,
                                  !.free_conversions_before =
                                        r.self.free_conversions,
                                  !.self = d.self,
                                  !.amount = d.amount,
                                  !.payment_method = d.payment_method,
                                  !.success = d.success]]
           /\ users' = IF d.success THEN save(users, r.user, d.self)
                       ELSE users
    /\ pc' = [pc EXCEPT ![w] = "decided"]
    /\ UNCHANGED <<transactions, pricing, calls, epoch>>
    /\ UNCHANGED others

\* Transaction.objects.create(...) of use_conversion, then return
ChargeRecord(w) ==
    /\ pc[w] = "decided"
    /\ req[w].view = "charge"
    /\ LET r == req[w]
       IN  transactions' = Append(transactions,
              [user |-> r.user, transaction_type |-> "conversion",
               amount |-> r.amount, payment_method |-> r.payment_method,
               balance_before |-> r.balance_before,
               balance_after |-> r.self.balance,
               free_conversions_before |-> r.free_conversions_before,
               free_conversions_after |-> r.self.free_conversions,
               is_successful |-> r.success, document |-> r.document])
    /\ req' = [req EXCEPT ![w] = NoReq]
    /\ pc' = [pc EXCEPT ![w] = "idle"]
    /\ UNCHANGED <<users, pricing, calls, epoch>>
    /\ UNCHANGED others

\* add_balance_view: request.user is fetched from the database
CreditLoad(w, u, amount) ==
    /\ pc[w] = "idle"
    /\ calls < MaxCalls
    /\ calls' = calls + 1
    /\ epoch' = OpenEpoch(u)
    /\ req' = [req EXCEPT ![w] = [NoReq EXCEPT !.view = "credit", !.user = u,
                                               !.arg = amount,
                                               !.self = users[u]]]
    /\ pc' = [pc EXCEPT ![w] = "loaded"]
    /\ UNCHANGED <<users, transactions, pricing>>
    /\ UNCHANGED others

\* add_balance_view: balance += amount; request.user.save()
CreditSave(w) ==
    /\ pc[w] = "loaded"
    /\ req[w].view = "credit"
    /\ LET r == req[w]
           self1 == [r.self EXCEPT !.balance = @ + r.arg]
       IN  /\ req' = [req EXCEPT ![w] =
                        [r EXCEPT !.balance_before = r.self.balance,
                                  !.free_conversions_before =
                                        r.self.free_conversions,
                                  !.self = self1,
                                  !.amount = r.arg,
                                  !.payment_method = "credit_card",
                                  !.success = TRUE]]
           /\ users' = save(users, r.user, self1)
    /\ pc' = [pc EXCEPT ![w] = "decided"]
    /\ UNCHANGED <<transactions, pricing, calls, epoch>>
    /\ UNCHANGED others

\* add_balance_view: Transaction.objects.create(...), then redirect
CreditRecord(w) ==
    /\ pc[w] = "decided"
    /\ req[w].view = "credit"
    /\ LET r == req[w]
       IN  transactions' = Append(transactions,
              [user |-> r.user, transaction_type |-> "balance_add",
               amount |-> r.amount, payment_method |-> "credit_card",
               balance_before |-> r.balance_before,
               balance_after |-> r.self.balance,
               free_conversions_before |-> r.self.free_conversions,
               free_conversions_after |-> r.self.free_conversions,
               is_successful |-> TRUE, document |-> 0])
    /\ req' = [req EXCEPT ![w] = NoReq]
    /\ pc' = [pc EXCEPT ![w] = "idle"]
    /\ UNCHANGED <<users, pricing, calls, epoch>>
    /\ UNCHANGED others

Next ==
    \/ \E w \in Workers, u \in Users, n \in PageCounts : ChargeLoad(w, u, n)
    \/ \E w \in Workers : ChargeDecide(w)
    \/ \E w \in Workers : ChargeRecord(w)
    \/ \E w \in Workers, u \in Users, a \in Amounts : CreditLoad(w, u, a)
    \/ \E w \in Workers : CreditSave(w)
    \/ \E w \in Workers : CreditRecord(w)

Spec == Init /\ [][Next]_vars

\* Transaction.objects.create(...) raises (storage unavailable).  Neither
\* use_conversion nor add_balance_view wraps save() and create() in a
\* database transaction, so the exception just ends the request.
TransactionCreateFails(w) ==
    /\ pc[w] = "decided"
    /\ req' = [req EXCEPT ![w] = NoReq]
    /\ pc' = [pc EXCEPT ![w] = "idle"]
    /\ UNCHANGED <<users, transactions, pricing, calls, epoch>>
    /\ UNCHANGED others

NextStorage ==
    \/ Next
    \/ \E w \in Workers : TransactionCreateFails(w)

\* The same program on a database whose INSERT can fail
SpecStorage == Init /\ [][NextStorage]_vars

\* -------------------------------------------- the conversion workflow
\* The default row with the minimum charge above the base price
DefaultPricing_high_minimum ==
    [pricing_type |-> "file_plus_pages", base_price |-> 50,
     price_per_page |-> 10, free_pages |-> 0, minimum_charge |-> 60,
     max_price_per_file |-> 0]

\* The default row that convert_view and use_conversion create when
\* docx_to_pdf has no ConversionPricing row (free_pages and
\* max_price_per_file take the field defaults)
DefaultPricing ==
    [pricing_type |-> "file_plus_pages", base_price |-> 50,
     price_per_page |-> 10, free_pages |-> 0, minimum_charge |-> 10,
     max_price_per_file |-> 0]

\* convert_view always charges for one page
ConvertPageCount == 1

\* on_delete=CASCADE instead: the Transactions go with the Document
on_delete_CASCADE(log, d) == SelectSeq(log, LAMBDA t : t.document # d)

\* Transaction.document is on_delete=SET_NULL
on_delete_SET_NULL(log, d) ==
    [i \in DOMAIN log |->
        IF log[i].document = d THEN [log[i] EXCEPT !.document = 0]
        ELSE log[i]]

\* convert_view, POST, up to Document.objects.create: the user object is
\* loaded, the docx_to_pdf pricing is fetched or created, a user who cannot
\* convert is redirected, otherwise the Document is created as 'processing'.
ConvertLoad(w, u) ==
    /\ pc[w] = "idle"
    /\ calls < MaxCalls
    /\ calls' = calls + 1
    /\ catalog' = catalog \cup {"docx_to_pdf"}
    /\ pricing' = IF "docx_to_pdf" \in catalog THEN pricing
                  ELSE DefaultPricing
    /\ IF can_convert(users[u])
       THEN /\ documents' = Append(documents,
                    [user |-> u, status |-> "processing", exists |-> TRUE])
            /\ req' = [req EXCEPT ![w] =
                        [NoReq EXCEPT !.view = "convert", !.user = u,
                                      !.arg = ConvertPageCount,
                                      !.self = users[u],
                                      !.document = Len(documents) + 1]]
            /\ pc' = [pc EXCEPT ![w] = "processing"]
            /\ epoch' = OpenEpoch(u)
       ELSE UNCHANGED <<documents, req, pc, epoch>>
    /\ UNCHANGED <<users, transactions, stats, quote>>

\* convert_view calling use_conversion after the if / else on pdf_content,
\* whatever the conversion returned
ConvertRun_charge_always(w, ok) ==
    /\ pc[w] = "processing"
    /\ LET d == req[w].document
       IN  documents' = [documents EXCEPT ![d].status =
                            IF ok THEN "completed" ELSE "failed"]
    /\ req' = [req EXCEPT ![w].view = "charge"]
    /\ pc' = [pc EXCEPT ![w] = "loaded"]
    /\ UNCHANGED <<users, transactions, pricing, calls, epoch, catalog,
                   stats, quote>>

\* convert_view: convert_docx_to_pdf returns the PDF bytes (ok) or returns
\* nothing / raises.  With bytes the Document is saved as 'completed' and
\* the view goes on to use_conversion; otherwise it is saved as 'failed'
\* and the request ends.
ConvertRun(w, ok) ==
    /\ pc[w] = "processing"
    /\ LET d == req[w].document
       IN  IF ok
           THEN /\ documents' = [documents EXCEPT ![d].status = "completed"]
                /\ req' = [req EXCEPT ![w].view = "charge"]
                /\ pc' = [pc EXCEPT ![w] = "loaded"]
           ELSE /\ documents' = [documents EXCEPT ![d].status = "failed"]
                /\ req' = [req EXCEPT ![w] = NoReq]
                /\ pc' = [pc EXCEPT ![w] = "idle"]
    /\ UNCHANGED <<users, transactions, pricing, calls, epoch, catalog,
                   stats, quote>>

\* No request is working on document d
Settled(d) == \A w \in Workers : pc[w] = "idle" \/ req[w].document # d

\* A Document whose request is over is deleted (DocumentAdmin); the
\* Transactions that point to it keep their row and lose the reference.
DeleteDocument(d) ==
    /\ d \in DOMAIN documents
    /\ documents[d].exists
    /\ Settled(d)
    /\ documents' = [documents EXCEPT ![d].exists = FALSE]
    /\ transactions' = on_delete_SET_NULL(transactions, d)
    /\ UNCHANGED <<users, pricing, pc, req, calls, epoch, catalog, stats,
                   quote>>

\* Top-ups that leave less than, or exactly, the price of a conversion
ConvertTopUps == {20, 50}

\* The top-up made while conversions run
ConvertCredit == 50

\* The Transaction add_balance_view records for a first top-up of a
\* cents on an account that has fc free conversions left
TopUpTx(u, a, fc) ==
    [user |-> u, transaction_type |-> "balance_add", amount |-> a,
     payment_method |-> "credit_card",
     balance_before |-> DefaultBalance, balance_after |-> DefaultBalance + a,
     free_conversions_before |-> fc, free_conversions_after |-> fc,
     is_successful |-> TRUE, document |-> 0]

\* An account that made k conversions one after the other and then topped
\* up once
InitConvert ==
    /\ \E k \in 0 .. DefaultFreeConversions, a \in ConvertTopUps :
          LET fc == DefaultFreeConversions - k
          IN  /\ users = [u \in Users |->
                            [balance |-> DefaultBalance + a,
                             free_conversions |-> fc]]
              /\ transactions =
                    [i \in 1 .. k |-> FreeConversionTx("alice", i)]
                    \o << TopUpTx("alice", a, fc) >>
              /\ epoch = [u \in Users |->
                            [balance |-> DefaultBalance + a,
                             free_conversions |-> fc,
                             start |-> k + 1]]
    /\ pricing \in Policies
    /\ pc = [w \in Workers |-> "idle"]
    /\ req = [w \in Workers |-> NoReq]
    /\ calls = 0
    /\ catalog = {"docx_to_pdf"}
    /\ documents = << >>
    /\ stats = NoStats
    /\ quote = NoQuote

NextConvert ==
    \/ \E w \in Workers, u \in Users : ConvertLoad(w, u)
    \/ \E w \in Workers, ok \in BOOLEAN : ConvertRun(w, ok)
    \/ \E w \in Workers : ChargeDecide(w)
    \/ \E w \in Workers : ChargeRecord(w)
    \/ \E w \in Workers, u \in Users : CreditLoad(w, u, ConvertCredit)
    \/ \E w \in Workers : CreditSave(w)
    \/ \E w \in Workers : CreditRecord(w)
    \/ \E d \in DOMAIN documents : DeleteDocument(d)

\* The conversion workflow with top-ups and document deletion
SpecConvert == InitConvert /\ [][NextConvert]_vars

\* ------------------------------------------- charging without a policy
\* use_conversion called for an operation type that has no ConversionPricing
\* row.  The row is looked up (get) and, on a miss, created; the two are
\* separate statements.  The object returned by create() keeps the Python
\* floats it was built from (0.50, 0.10), the object returned by get() holds
\* Decimals.

\* Page counts for which the float 0.50 + n * 0.10 is larger than the
\* decimal of the same cents (0.8 and 0.9 are, 0.5, 0.6, 0.7 are not), so
\* that a Decimal balance of exactly that many cents is not >= the cost
float_above(page_count) == page_count \in {3, 4}

CatalogPageCounts == {0, 1, 3}

\* use_conversion: ConversionPricing.objects.get(operation_type=...)
PricingGet(w) ==
    /\ pc[w] = "loaded"
    /\ req[w].view = "charge"
    /\ pc' = [pc EXCEPT ![w] = IF "docx_to_pdf" \in catalog
                               THEN "priced" ELSE "missing"]
    /\ UNCHANGED <<users, transactions, pricing, req, calls, epoch>>
    /\ UNCHANGED others

\* use_conversion: except DoesNotExist: ConversionPricing.objects.create(...)
\* operation_type is unique=True: when another request has inserted the row
\* in the meantime the INSERT raises IntegrityError and the call ends.
PricingCreate(w) ==
    /\ pc[w] = "missing"
    /\ IF "docx_to_pdf" \in catalog
       THEN /\ req' = [req EXCEPT ![w] = NoReq]
            /\ pc' = [pc EXCEPT ![w] = "idle"]
            /\ UNCHANGED <<catalog, pricing>>
       ELSE /\ catalog' = catalog \cup {"docx_to_pdf"}
            /\ pricing' = DefaultPricing
            /\ req' = [req EXCEPT ![w].created = TRUE]
            /\ pc' = [pc EXCEPT ![w] = "priced"]
    /\ UNCHANGED <<users, transactions, calls, epoch, documents, stats,
                   quote>>

\* use_conversion from the snapshot to self.save(), for a worker that holds
\* its pricing object.  With an object made by create() the cost is a float:
\* the comparison with the Decimal balance works, `self.balance -= cost`
\* raises TypeError and the call ends before save() and before the
\* Transaction is created.
PricedDecide(w) ==
    /\ pc[w] = "priced"
    /\ LET r == req[w]
           policy == IF r.created THEN DefaultPricing ELSE pricing
           calculated_cost == calculate_cost(policy, r.arg)
           d == IF /\ r.created /\ float_above(r.arg)
                   /\ r.self.free_conversions = 0
                   /\ r.self.balance = calculated_cost
                THEN [self |-> r.self, payment_method |-> "balance",
                      amount |-> calculated_cost, success |-> FALSE]
                ELSE use_conversion(r.self, calculated_cost)
           raises == /\ r.created
                     /\ d.success
                     /\ d.payment_method = "balance"
       IN  IF raises
           THEN /\ req' = [req EXCEPT ![w] = NoReq]
                /\ pc' = [pc EXCEPT ![w] = "idle"]
                /\ UNCHANGED users
           ELSE /\ req' = [req EXCEPT ![w] =
                        [r EXCEPT !.balance_before = r.self.balance,
                                  !.free_conversions_before =
                                        r.self.free_conversions,
                                  !.self = d.self,
                                  !.amount = d.amount,
                                  !.payment_method = d.payment_method,
                                  !.success = d.success]]
                /\ users' = IF d.success THEN save(users, r.user, d.self)
                            ELSE users
                /\ pc' = [pc EXCEPT ![w] = "decided"]
    /\ UNCHANGED <<transactions, pricing, calls, epoch>>
    /\ UNCHANGED others

\* Top-ups made before the first charge (0: none)
CatalogTopUps == {0, 50, 80}

\* An account that made k conversions one after the other (their pricing row
\* has since been deleted by the administrator) and topped up at most once
InitCatalog ==
    /\ \E k \in 0 .. DefaultFreeConversions, a \in CatalogTopUps :
          LET fc == DefaultFreeConversions - k
              topup == IF a = 0 THEN << >> ELSE << TopUpTx("alice", a, fc) >>
          IN  /\ users = [u \in Users |->
                            [balance |-> DefaultBalance + a,
                             free_conversions |-> fc]]
              /\ transactions =
                    [i \in 1 .. k |-> FreeConversionTx("alice", i)] \o topup
              /\ epoch = [u \in Users |->
                            [balance |-> DefaultBalance + a,
                             free_conversions |-> fc,
                             start |-> k + Len(topup)]]
    /\ pricing = DefaultPricing
    /\ pc = [w \in Workers |-> "idle"]
    /\ req = [w \in Workers |-> NoReq]
    /\ calls = 0
    /\ catalog = {}
    /\ documents = << >>
    /\ stats = NoStats
    /\ quote = NoQuote

NextCatalog ==
    \/ \E w \in Workers, u \in Users, n \in CatalogPageCounts :
            ChargeLoad(w, u, n)
    \/ \E w \in Workers : PricingGet(w)
    \/ \E w \in Workers : PricingCreate(w)
    \/ \E w \in Workers : PricedDecide(w)
    \/ \E w \in Workers : ChargeRecord(w)
    \/ \E w \in Workers, u \in Users : CreditLoad(w, u, ConvertCredit)
    \/ \E w \in Workers : CreditSave(w)
    \/ \E w \in Workers : CreditRecord(w)

\* Charges and credits on a catalogue that starts without the pricing row
SpecCatalog == InitCatalog /\ [][NextCatalog]_vars

\* ------------------------------------------------ pricing on its own
\* The ConversionPricing rows and page counts that are priced.  "tiered" is
\* a pricing_type outside PRICING_TYPE_CHOICES (the column is a plain
\* CharField), which takes the final else of calculate_cost.
CostPolicies ==
    [pricing_type : {"fixed", "per_page", "file_plus_pages", "tiered"},
     base_price : {0, 50},
     price_per_page : {0, 10},
     free_pages : {0, 2},
     minimum_charge : {0, 10, 60},
     max_price_per_file : {0, 5, 55, 100}]

CostPageCounts == -1 .. MaxPages

InitCost ==
    /\ quote \in [policy : CostPolicies, page_count : CostPageCounts,
                   cost : {0}, priced : {FALSE}]
    /\ users = [u \in Users |-> [balance |-> DefaultBalance,
                                 free_conversions |-> DefaultFreeConversions]]
    /\ transactions = << >>
    /\ epoch = [u \in Users |-> [balance |-> DefaultBalance,
                                 free_conversions |-> DefaultFreeConversions,
                                 start |-> 0]]
    /\ pricing = quote.policy
    /\ pc = [w \in Workers |-> "idle"]
    /\ req = [w \in Workers |-> NoReq]
    /\ calls = 0
    /\ catalog = {"docx_to_pdf"}
    /\ documents = << >>
    /\ stats = NoStats

\* pricing.calculate_cost(page_count)
Quote ==
    /\ ~quote.priced
    /\ quote' = [quote EXCEPT !.cost = calculate_cost(pricing, quote.page_count),
                              !.priced = TRUE]
    /\ UNCHANGED <<users, transactions, pricing, pc, req, calls, epoch,
                   catalog, documents, stats>>

NextCost == Quote

\* One policy and one page count, priced
SpecCost == InitCost /\ [][NextCost]_vars

\* ------------------------------------------------- reading the ledger
RECURSIVE SumAmount(_)
SumAmount(s) == IF s = << >> THEN 0 ELSE Head(s).amount + SumAmount(Tail(s))

IsCredit(t) == t.transaction_type = "balance_add"
IsConversion(t) == t.transaction_type = "conversion"
IsDebit(t) ==
    IsConversion(t) /\ t.is_successful /\ t.payment_method = "balance"
IsFreeUse(t) ==
    IsConversion(t) /\ t.is_successful
    /\ t.payment_method = "free_conversion"

\* The Transactions of the calls that started since the account was last
\* quiet
Batch(u) ==
    SubSeq(TransactionsOf(u), epoch[u].start + 1, Len(TransactionsOf(u)))

Range(s) == {s[i] : i \in DOMAIN s}

\* ------------------------------------------------ aggregation queries
\* QuerySet.filter(...) without the is_successful=True condition
filter_any_outcome(log, u, ttype) ==
    SelectSeq(log, LAMBDA t : t.user = u /\ t.transaction_type = ttype)

\* Transaction.objects.filter(user=u, transaction_type=ttype,
\*                            is_successful=True)
filter(log, u, ttype) ==
    SelectSeq(log, LAMBDA t : /\ t.user = u
                              /\ t.transaction_type = ttype
                              /\ t.is_successful)

\* .aggregate(total=models.Sum('amount'))['total'] or 0
Sum(rows) == SumAmount(rows)

\* dashboard_view: total_spent
DashboardView(u) ==
    /\ stats' = [NoStats EXCEPT
                    !.view = "dashboard", !.user = u,
                    !.total_spent = Sum(filter(transactions, u, "conversion"))]
    /\ UNCHANGED <<users, transactions, pricing, pc, req, calls, epoch,
                   catalog, documents, quote>>

\* transactions_view: spending statistics
TransactionsView(u) ==
    /\ stats' =
          [view |-> "transactions", user |-> u,
           total_spent |-> Sum(filter(transactions, u, "conversion")),
           total_conversions |-> Len(filter(transactions, u, "conversion")),
           total_added |-> Sum(filter(transactions, u, "balance_add")),
           free_conversions_used |->
              Len(SelectSeq(filter(transactions, u, "conversion"),
                            LAMBDA t : t.payment_method = "free_conversion"))]
    /\ UNCHANGED <<users, transactions, pricing, pc, req, calls, epoch,
                   catalog, documents, quote>>

NextReport ==
    \/ \E w \in Workers, u \in Users : ChargeLoad(w, u, ConvertPageCount)
    \/ \E w \in Workers : ChargeDecide(w)
    \/ \E w \in Workers : ChargeRecord(w)
    \/ \E w \in Workers, u \in Users : CreditLoad(w, u, ConvertCredit)
    \/ \E w \in Workers : CreditSave(w)
    \/ \E w \in Workers : CreditRecord(w)
    \/ \E u \in Users : DashboardView(u)
    \/ \E u \in Users : TransactionsView(u)

\* The ledger operations with the pages that report on the log
SpecReport == Init /\ [][NextReport]_vars

\* ---------------------------------------------------- several accounts
\* Two registered users: each request is made by one of them
Accounts == {"alice", "bob"}

\* The conversions of the accounts before the requests, account by account
RECURSIVE History(_, _)
History(k, todo) ==
    IF todo = {} THEN << >>
    ELSE LET u == CHOOSE v \in todo : TRUE
         IN  [i \in 1 .. k[u] |-> FreeConversionTx(u, i)]
                \o History(k, todo \ {u})

\* Two accounts (balance 0, 3 free conversions at registration), each having
\* made some conversions one after the other
InitAccounts ==
    /\ \E k \in [Accounts -> 0 .. DefaultFreeConversions] :
          /\ users = [u \in Accounts |->
                        [balance |-> DefaultBalance,
                         free_conversions |-> DefaultFreeConversions - k[u]]]
          /\ transactions = History(k, Accounts)
          /\ epoch = [u \in Accounts |->
                        [balance |-> DefaultBalance,
                         free_conversions |-> DefaultFreeConversions - k[u],
                         start |-> k[u]]]
    /\ pricing \in Policies
    /\ pc = [w \in Workers |-> "idle"]
    /\ req = [w \in Workers |-> NoReq]
    /\ calls = 0
    /\ catalog = {"docx_to_pdf"}
    /\ documents = << >>
    /\ stats = NoStats
    /\ quote = NoQuote

\* Charges and credits by either user, in any interleaving
NextAccounts ==
    \/ \E w \in Workers, u \in Accounts : ChargeLoad(w, u, ConvertPageCount)
    \/ \E w \in Workers : ChargeDecide(w)
    \/ \E w \in Workers : ChargeRecord(w)
    \/ \E w \in Workers, u \in Accounts : CreditLoad(w, u, ConvertCredit)
    \/ \E w \in Workers : CreditSave(w)
    \/ \E w \in Workers : CreditRecord(w)

SpecAccounts == InitAccounts /\ [][NextAccounts]_vars

TypeOK ==
    /\ calls \in 0 .. MaxCalls
    /\ \A w \in Workers : 
            pc[w] \in {"idle", "processing", "missing", "priced", "loaded", "decided"}

\* ------------------------------------------------------------- claims
SuccessesIn(s) == Cardinality({i \in DOMAIN s : s[i].is_successful})
FailuresIn(s) == Cardinality({i \in DOMAIN s : ~s[i].is_successful})

\* How many charges of price c a balance b covers, out of n
Covered(b, c, n) == IF b < 0 THEN 0 ELSE Min(n, b \div c)

\* C1 -- no double-spend.  When a batch of N overlapping charge calls, all of
\* the same price, has run to completion against an account that had no free
\* conversions and a balance covering exactly K of them, exactly K of the
\* calls succeeded and N-K failed.
C1_NoDoubleSpend ==
    \A u \in Users :
        LET b == Batch(u)
            n == Len(b)
        IN  ( /\ Quiet(u)
              /\ n > 0
              /\ epoch[u].free_conversions = 0
              /\ \A i \in DOMAIN b :
                    IsConversion(b[i]) /\ b[i].amount = b[1].amount )
            => /\ SuccessesIn(b)
                    = Covered(epoch[u].balance, b[1].amount, n)
               /\ FailuresIn(b)
                    = n - Covered(epoch[u].balance, b[1].amount, n)

\* The ledger after running the call that recorded Transaction t on ledger
\* state l, alone
RunAlone(l, t) ==
    IF IsCredit(t)
    THEN [l EXCEPT !.balance = @ + t.amount]
    ELSE use_conversion(l, t.amount).self

\* C2 -- no lost update.  When two overlapping calls, at least one of them a
\* credit, have both finished, the stored balance and free conversions are
\* what running the two calls one after the other, in one of the two orders,
\* leaves.
C2_NoLostUpdate ==
    \A u \in Users :
        LET b == Batch(u)
            l == [balance |-> epoch[u].balance,
                  free_conversions |-> epoch[u].free_conversions]
        IN  ( /\ Quiet(u)
              /\ Len(b) = 2
              /\ IsCredit(b[1]) \/ IsCredit(b[2]) )
            => users[u] \in {RunAlone(RunAlone(l, b[1]), b[2]),
                             RunAlone(RunAlone(l, b[2]), b[1])}

Credits(s) == SelectSeq(s, IsCredit)
Debits(s) == SelectSeq(s, IsDebit)
FreeUses(s) == SelectSeq(s, IsFreeUse)

\* C3 -- the ledger is a left fold of the log.  Whenever no call is in
\* flight, the stored balance is the sum of the balance_add amounts minus the
\* sum of the amounts of the successful conversions paid by balance.
C3_BalanceIsFoldOfLog ==
    \A u \in Users :
        Quiet(u) =>
            users[u].balance
                = DefaultBalance + SumAmount(Credits(TransactionsOf(u)))
                  - SumAmount(Debits(TransactionsOf(u)))

\* C4 -- free-allowance round trip.  Whenever no call is in flight, the
\* stored free_conversions is 3 minus the number of successful conversions
\* paid by free_conversion.
C4_FreeAllowanceRoundTrip ==
    \A u \in Users :
        Quiet(u) =>
            users[u].free_conversions
                = DefaultFreeConversions - Len(FreeUses(TransactionsOf(u)))

\* C5 -- the stored balance and free_conversions are never negative.
C5_NeverNegative ==
    \A u \in Users :
        users[u].balance >= 0 /\ users[u].free_conversions >= 0

\* C6 -- every Transaction reconciles with its own snapshot: a successful
\* conversion paid by balance has balance_after = balance_before - amount,
\* any other conversion has balance_after = balance_before, and a
\* balance_add has balance_after = balance_before + amount.
C6_SnapshotReconciles ==
    \A t \in Range(transactions) :
        /\ IsDebit(t) => t.balance_after = t.balance_before - t.amount
        /\ (IsConversion(t) /\ ~IsDebit(t))
               => t.balance_after = t.balance_before
        /\ IsCredit(t) => t.balance_after = t.balance_before + t.amount

\* All three kinds of record, written by calls that moved money, are in
\* the log
C6_Witness ==
    /\ \E t \in Range(transactions) : IsDebit(t) /\ t.amount > 0
    /\ \E t \in Range(transactions) : IsConversion(t) /\ ~t.is_successful
    /\ \E t \in Range(transactions) : IsCredit(t) /\ t.amount > 0

\* The charge of worker w takes its decision in this step
Deciding(w) ==
    /\ pc[w] = "loaded" /\ req[w].view = "charge"
    /\ pc'[w] = "decided"

\* The charge of worker w writes its Transaction in this step
Recording(w) ==
    /\ pc[w] = "decided" /\ req[w].view = "charge"
    /\ pc'[w] = "idle"

Last(s) == s[Len(s)]

\* A charge on an account object that has free conversions left pays with
\* one of them and leaves the balance alone
C7_DecideStep ==
    \A w \in Workers :
        Deciding(w) =>
            LET self == req[w].self
                u == req[w].user
            IN  /\ self.free_conversions > 0 =>
                    /\ req'[w].success
                    /\ req'[w].payment_method = "free_conversion"
                    /\ req'[w].amount = 0
                    /\ users'[u] = [balance |-> self.balance,
                                   free_conversions |->
                                        self.free_conversions - 1]
                    /\ users[u] = self =>
                         /\ users'[u].free_conversions
                                = users[u].free_conversions - 1
                         /\ users'[u].balance = users[u].balance
                /\ req'[w].self.balance # self.balance =>
                    self.free_conversions = 0

\* ... and records exactly that
C7_RecordStep ==
    \A w \in Workers :
        (Recording(w) /\ req[w].free_conversions_before > 0) =>
            /\ transactions' = Append(transactions, Last(transactions'))
            /\ LET t == Last(transactions')
               IN  /\ IsFreeUse(t)
                   /\ t.amount = 0
                   /\ t.free_conversions_after
                        = t.free_conversions_before - 1
                   /\ t.balance_after = t.balance_before

\* C7 -- decision order, free allowance first.  A charge called on an account
\* with free_conversions > 0, whatever its balance and the computed cost,
\* succeeds, takes exactly 1 from free_conversions, leaves the balance
\* unchanged and records a free_conversion Transaction of amount 0; the
\* balance is debited only when free_conversions = 0.
C7_FreeAllowanceFirst == [][C7_DecideStep /\ C7_RecordStep]_vars

\* A free conversion was recorded for an account that had money
C7_Witness ==
    \E i \in DOMAIN transactions :
        /\ i > DefaultFreeConversions
        /\ IsFreeUse(transactions[i])
        /\ transactions[i].balance_before > 0

\* The object of worker w cannot pay the computed cost
Insufficient(w) ==
    /\ req[w].self.free_conversions = 0
    /\ req[w].self.balance < calculate_cost(pricing, req[w].arg)

C8_DecideStep ==
    \A w \in Workers :
        (Deciding(w) /\ Insufficient(w)) =>
            /\ ~req'[w].success
            /\ users' = users
            /\ req'[w].self = req[w].self
            /\ req'[w].payment_method = "balance"
            /\ req'[w].amount = calculate_cost(pricing, req[w].arg)

C8_RecordStep ==
    \A w \in Workers :
        (Recording(w) /\ ~req[w].success) =>
            /\ users' = users
            /\ transactions' = Append(transactions, Last(transactions'))
            /\ LET t == Last(transactions')
               IN  /\ IsConversion(t)
                   /\ ~t.is_successful
                   /\ t.payment_method = "balance"
                   /\ t.amount = req[w].amount
                   /\ t.amount = calculate_cost(pricing, req[w].arg)
                   /\ t.balance_after = t.balance_before
                   /\ t.free_conversions_after = t.free_conversions_before

\* C8 -- insufficient funds is a recorded, non-mutating outcome.  A charge
\* with free_conversions = 0 and balance < cost returns success = false,
\* leaves the stored balance and free_conversions unchanged and appends one
\* Transaction with is_successful = false, payment_method = balance,
\* amount = the would-be cost and balance_after = balance_before.
C8_InsufficientFundsRecorded == [][C8_DecideStep /\ C8_RecordStep]_vars

\* A refused charge of an account that still had some money is in the log
C8_Witness ==
    \E t \in Range(transactions) :
        /\ IsConversion(t) /\ ~t.is_successful
        /\ t.balance_before > 0
        /\ t.amount > t.balance_before

\* C9 -- charge and audit record are one unit.  When appending the
\* Transaction fails after the ledger mutation of a call was saved, the
\* mutation is rolled back: the account is back at what it was before the
\* call (stated for a call that ran alone).
C9_RollbackOnFailedRecord ==
    [][\A w \in Workers :
         ( /\ TransactionCreateFails(w)
           /\ \A v \in Workers \ {w} : pc[v] = "idle" )
         => users'[req[w].user]
              = [balance |-> req[w].balance_before,
                 free_conversions |-> req[w].free_conversions_before]]_vars

C10_CreditStep ==
    \A w \in Workers :
        ( /\ pc[w] = "loaded" /\ req[w].view = "credit"
          /\ req[w].arg <= 0
          /\ pc'[w] # pc[w] )
        => users' = users /\ pc'[w] = "idle"

\* C10 -- invalid credit amounts are rejected before any mutation: a credit
\* with amount <= 0 leaves balance and free_conversions unchanged and
\* appends no balance_add Transaction.
C10_InvalidCreditRejected ==
    /\ [][C10_CreditStep]_vars
    /\ [](\A t \in Range(transactions) : IsCredit(t) => t.amount > 0)

\* C11 -- billing success is a prerequisite of a completed conversion: once
\* its request is over, a Document has status 'completed' (and is served by
\* download_view) only if a successful conversion Transaction was recorded
\* for it; a refused charge never leaves the document completed.
C11_CompletedOnlyIfBilled ==
    \A d \in DOMAIN documents :
        ( /\ documents[d].exists
          /\ documents[d].status = "completed"
          /\ Settled(d) )
        => \E t \in Range(transactions) :
              t.document = d /\ IsConversion(t) /\ t.is_successful


\* The charge before clamping, case by case
RawCharge(p, n) ==
    CASE p.pricing_type = "fixed" -> p.base_price
      [] p.pricing_type = "per_page" -> p.price_per_page * n
      [] p.pricing_type = "file_plus_pages" ->
            IF n > p.free_pages
            THEN p.base_price + p.price_per_page * (n - p.free_pages)
            ELSE p.base_price

\* The cap, applied when it is set
Capped(p, c) ==
    IF p.max_price_per_file > 0 /\ c > p.max_price_per_file
    THEN p.max_price_per_file ELSE c

\* At least the minimum charge
Floored(p, c) == IF c < p.minimum_charge THEN p.minimum_charge ELSE c

KnownTypes == {"fixed", "per_page", "file_plus_pages"}

\* C15 -- calculate_cost matches the reference pricing function: before
\* clamping fixed gives base_price, per_page gives price_per_page x pages,
\* file_plus_pages gives base_price + price_per_page x max(0, pages -
\* free_pages); for file_plus_pages the cost at free_pages is
\* max(base_price, minimum_charge) and at free_pages + 1 it is
\* max(base_price + price_per_page, minimum_charge), each capped at
\* max_price_per_file when that is > 0.
C15_MatchesReference ==
    LET p == quote.policy
        n == quote.page_count
    IN  (quote.priced /\ p.pricing_type \in KnownTypes) =>
            /\ quote.cost = Capped(p, Floored(p, RawCharge(p, n)))
            /\ (p.pricing_type = "file_plus_pages" /\ n = p.free_pages)
                  => quote.cost
                        = Capped(p, Max(p.base_price, p.minimum_charge))
            /\ (p.pricing_type = "file_plus_pages" /\ n = p.free_pages + 1)
                  => quote.cost
                        = Capped(p, Max(p.base_price + p.price_per_page,
                                        p.minimum_charge))

\* A file_plus_pages policy was priced one page past, and another below,
\* its free pages
C15_Witness ==
    /\ quote.priced
    /\ quote.policy.pricing_type = "file_plus_pages"
    /\ quote.policy.price_per_page > 0
    /\ quote.policy.free_pages > 0
    /\ quote.page_count = quote.policy.free_pages + 1
    /\ quote.cost = quote.policy.base_price + quote.policy.price_per_page

\* C19 -- clamping bounds and order: for every policy and page count, zero
\* and negative ones included, the cost is >= minimum_charge when
\* max_price_per_file = 0 and <= max_price_per_file when that is > 0; the
\* cap is applied after the minimum, so with 0 < max_price_per_file <
\* minimum_charge the cost is max_price_per_file.
C19_ClampingBoundsAndOrder ==
    LET p == quote.policy
    IN  quote.priced =>
            /\ p.max_price_per_file = 0 => quote.cost >= p.minimum_charge
            /\ p.max_price_per_file > 0 =>
                  quote.cost <= p.max_price_per_file
            /\ (0 < p.max_price_per_file
                    /\ p.max_price_per_file < p.minimum_charge)
                  => quote.cost = p.max_price_per_file

\* A cap below the minimum charge won, for a page count that is not positive
C19_Witness ==
    /\ quote.priced
    /\ quote.page_count <= 0
    /\ 0 < quote.policy.max_price_per_file
    /\ quote.policy.max_price_per_file < quote.policy.minimum_charge
    /\ quote.cost = quote.policy.max_price_per_file

\* A call of worker w ends in this step
Ends(w) == pc[w] # "idle" /\ pc'[w] = "idle"

\* C13 -- a charge for an operation type without a policy never fails for
\* that reason: in every interleaving each charge creates or reuses the
\* default policy and returns its (success, transaction) result instead of
\* raising, and afterwards exactly one policy exists for the operation type.
C13_MissingPolicyNeverFails ==
    [][\A w \in Workers :
         (Ends(w) /\ req[w].view = "charge") =>
            /\ transactions' = Append(transactions, Last(transactions'))
            /\ IsConversion(Last(transactions'))
            /\ "docx_to_pdf" \in catalog']_vars

\* The row that was created on a miss is in the catalogue
Synthesized == "docx_to_pdf" \in catalog

\* C14 as stated -- the default policy synthesized on a lookup miss has
\* minimum_charge equal to its base_price, so a charge with a page count
\* within free_pages costs exactly the base price.
C14_MinimumEqualsBase ==
    Synthesized =>
        /\ pricing.minimum_charge = pricing.base_price
        /\ \A n \in CatalogPageCounts :
              n <= pricing.free_pages =>
                 calculate_cost(pricing, n) = pricing.base_price

\* C14 amended -- the default policy synthesized on a lookup miss has base
\* price 0.50, 0.10 per page and minimum charge 0.10, lower than the base
\* price; a charge with a page count within free_pages (0) costs exactly the
\* base price, which is also the amount recorded when that charge is refused.
C14_DefaultPolicy ==
    /\ Synthesized =>
        /\ pricing.pricing_type = "file_plus_pages"
        /\ pricing.base_price = 50
        /\ pricing.price_per_page = 10
        /\ pricing.minimum_charge = 10
        /\ pricing.minimum_charge < pricing.base_price
        /\ \A n \in CatalogPageCounts :
              n <= pricing.free_pages =>
                 calculate_cost(pricing, n) = pricing.base_price
    /\ \A w \in Workers :
         ( /\ pc[w] = "decided" /\ req[w].view = "charge"
           /\ req[w].created
           /\ req[w].arg <= pricing.free_pages
           /\ ~req[w].success )
         => req[w].amount = pricing.base_price

\* The call that created the default policy was refused for a page count
\* within free_pages
C14_Witness ==
    \E w \in Workers :
        /\ pc[w] = "decided" /\ req[w].view = "charge"
        /\ req[w].created
        /\ req[w].arg <= pricing.free_pages
        /\ ~req[w].success
        /\ Synthesized

\* C17 -- the free allowance is not double-used: when the overlapping
\* charges of a batch have finished, the number of successful
\* free_conversion Transactions they recorded does not exceed the amount by
\* which the stored free_conversions went down; in particular two charges
\* against free_conversions = 1 and balance = 0 record at most one.
C17_FreeAllowanceNotDoubleUsed ==
    \A u \in Users :
        LET b == Batch(u)
        IN  ( /\ Quiet(u)
              /\ \A i \in DOMAIN b : IsConversion(b[i]) )
            => /\ Len(FreeUses(b))
                    <= epoch[u].free_conversions - users[u].free_conversions
               /\ ( /\ epoch[u].free_conversions = 1
                    /\ epoch[u].balance = 0
                    /\ Len(b) = 2 )
                  => Len(FreeUses(b)) <= 1

\* The ledger state a Transaction was recorded against, and the one it left
Before(t) ==
    [balance |-> t.balance_before,
     free_conversions |-> t.free_conversions_before]
After(t) ==
    [balance |-> t.balance_after,
     free_conversions |-> t.free_conversions_after]

\* The Transactions log[i], i in rest, can be put in an order that starts
\* at ledger state l, where each one starts at the state the one before
\* left, and that ends at ledger state last
RECURSIVE Chains(_, _, _, _)
Chains(log, l, rest, last) ==
    IF rest = {} THEN l = last
    ELSE \E i \in rest :
            /\ Before(log[i]) = l
            /\ Chains(log, After(log[i]), rest \ {i}, last)

\* C18 -- snapshots form an unbroken chain: whenever no call is in flight,
\* the Transactions of an account can be put in an order in which each one's
\* balance_before and free_conversions_before are the balance_after and
\* free_conversions_after of the one before it (the first one starting at
\* the new account), and the last one's after-values are the stored balance
\* and free_conversions.
C18_SnapshotChain ==
    \A u \in Users :
        Quiet(u) =>
            Chains(TransactionsOf(u),
                   [balance |-> DefaultBalance,
                    free_conversions |-> DefaultFreeConversions],
                   DOMAIN TransactionsOf(u),
                   users[u])

\* Calls in flight
Pending == Cardinality({w \in Workers : pc[w] # "idle"})

\* C20 -- every charge call appends exactly one conversion Transaction,
\* whatever its outcome, and every credit call exactly one balance_add
\* Transaction; after n calls the log holds n more records.
C20_OneRecordPerCall ==
    [][/\ \A w \in Workers :
            Ends(w) =>
               /\ transactions' = Append(transactions, Last(transactions'))
               /\ Last(transactions').user = req[w].user
               /\ Last(transactions').transaction_type
                    = (IF req[w].view = "credit" THEN "balance_add"
                       ELSE "conversion")
       /\ Len(transactions') + Pending' - calls'
            = Len(transactions) + Pending - calls]_vars

\* The spend of account u read off a log, record by record
RECURSIVE SpendIn(_, _)
SpendIn(log, u) ==
    IF log = << >> THEN 0
    ELSE (IF /\ Head(log).user = u
             /\ Head(log).transaction_type = "conversion"
             /\ Head(log).is_successful
          THEN Head(log).amount ELSE 0)
         + SpendIn(Tail(log), u)

\* The free conversions of account u counted off a log
FreeUsesIn(log, u) ==
    Cardinality({i \in DOMAIN log :
                    /\ log[i].user = u
                    /\ log[i].transaction_type = "conversion"
                    /\ log[i].is_successful
                    /\ log[i].payment_method = "free_conversion"})

\* C16 -- dashboard aggregates are computed from the current log: whenever a
\* page is rendered, its total spend is the sum of amount over the account's
\* successful conversion Transactions and its free-conversion usage is the
\* number of those paid by free_conversion; unsuccessful charges and
\* balance_add records do not contribute.
C16_AggregatesFromCurrentLog ==
    [][stats' # stats =>
         /\ stats'.total_spent = SpendIn(transactions', stats'.user)
         /\ stats'.view = "transactions" =>
              stats'.free_conversions_used
                 = FreeUsesIn(transactions', stats'.user)]_vars

\* The history page shows the current figures of a log that also holds a
\* refused charge and a top-up
C16_Witness ==
    /\ stats.view = "transactions"
    /\ stats.total_spent > 0
    /\ stats.total_spent = SpendIn(transactions, stats.user)
    /\ stats.free_conversions_used > 0
    /\ \E t \in Range(transactions) :
          IsConversion(t) /\ ~t.is_successful /\ t.amount > 0
    /\ \E t \in Range(transactions) : IsCredit(t) /\ t.amount > 0

\* C12 -- the Transaction log is append-only: charges, credits and document
\* deletions leave every Transaction that was ever created in the log, at its
\* place and with all its fields, except that its document reference becomes
\* null when that document is deleted.
C12_AppendOnly ==
    [][/\ Len(transactions') >= Len(transactions)
       /\ \A i \in DOMAIN transactions :
            \/ transactions'[i] = transactions[i]
            \/ /\ transactions[i].document # 0
               /\ ~documents'[transactions[i].document].exists
               /\ transactions'[i]
                    = [transactions[i] EXCEPT !.document = 0]]_vars

\* A billed, completed document was deleted and later calls were recorded
C12_Witness ==
    \E d \in DOMAIN documents :
        /\ ~documents[d].exists
        /\ documents[d].status = "completed"
        /\ \A t \in Range(transactions) : t.document # d
        /\ \E e \in DOMAIN documents : e > d /\ documents[e].exists
        /\ \E t \in Range(transactions) : t.document > d

\* The rows of the log owned by account b
OwnedBy(log, b) == SelectSeq(log, LAMBDA t : t.user = b)

\* The account on whose behalf worker w takes this step
Acting(w) == IF pc[w] = "idle" THEN req'[w].user ELSE req[w].user

\* What a step of a charge or credit on account a does, from a's own row,
\* the policy and the request's input alone
OwnOutcome(w, a) ==
    /\ pc[w] = "idle" => req'[w].self = users[a]
    /\ (pc[w] = "loaded" /\ req[w].view = "charge") =>
          LET d == use_conversion(req[w].self,
                                  calculate_cost(pricing, req[w].arg))
          IN  /\ req'[w].success = d.success
              /\ req'[w].amount = d.amount
              /\ req'[w].payment_method = d.payment_method
              /\ req'[w].self = d.self
              /\ users'[a] = IF d.success THEN d.self ELSE users[a]
    /\ (pc[w] = "loaded" /\ req[w].view = "credit") =>
          /\ req'[w].self.balance = req[w].self.balance + req[w].arg
          /\ users'[a] = req'[w].self
    /\ pc[w] = "decided" =>
          /\ transactions' = Append(transactions, Last(transactions'))
          /\ Last(transactions').user = a
          /\ Last(transactions').balance_before = req[w].balance_before
          /\ Last(transactions').balance_after = req[w].self.balance
          /\ Last(transactions').is_successful = req[w].success
          /\ users' = users

\* C21 -- accounts are isolated: a step of a charge or credit on account A,
\* in any interleaving with operations on another account B, leaves B's
\* balance and free_conversions unchanged and appends no Transaction owned
\* by B, and what it does is determined by A's own row, the policy and the
\* request, not by B's state.
C21_AccountsIsolated ==
    [][\A w \in Workers :
         pc'[w] # pc[w] =>
            /\ \A b \in (DOMAIN users) \ {Acting(w)} :
                  /\ users'[b] = users[b]
                  /\ OwnedBy(transactions', b) = OwnedBy(transactions, b)
            /\ OwnOutcome(w, Acting(w))]_vars

\* A charge on one account and a credit on the other are in flight together,
\* both saved and neither recorded, and the second account already differs
\* from what it was before the requests
C21_Witness ==
    \E w1, w2 \in Workers :
        /\ pc[w1] = "decided" /\ req[w1].view = "charge"
        /\ req[w1].user = "alice" /\ req[w1].success
        /\ pc[w2] = "decided" /\ req[w2].view = "credit"
        /\ req[w2].user = "bob"
        /\ users["bob"].balance # epoch["bob"].balance
        /\ users["alice"] # users["bob"]
        /\ Len(OwnedBy(transactions, "bob")) > 0

\* The conversion of worker w's document fails in this step
Failing(w) ==
    /\ pc[w] = "processing"
    /\ pc'[w] # "processing"
    /\ documents'[req[w].document].status = "failed"

\* The request of the failing conversion ends there, having changed no
\* account and no Transaction; a failed Document stays failed
C22_FailStep ==
    /\ \A w \in Workers :
          Failing(w) =>
             /\ pc'[w] = "idle"
             /\ users' = users
             /\ transactions' = transactions
    /\ \A w \in Workers :
          (pc[w] = "idle" /\ pc'[w] = "processing") =>
             /\ users' = users
             /\ transactions' = transactions
    /\ \A d \in DOMAIN documents :
          documents[d].status = "failed" => documents'[d].status = "failed"

\* C22 -- a failed conversion is never billed: when convert_docx_to_pdf
\* returns no bytes or raises, the Document is saved as 'failed' and stays
\* so, the request appends no Transaction and leaves the user's balance and
\* free_conversions as they are, and no Transaction ever refers to a failed
\* Document.
C22_FailedNeverBilled ==
    /\ [][C22_FailStep]_vars
    /\ [](\A d \in DOMAIN documents :
            documents[d].status = "failed" =>
               /\ \A t \in Range(transactions) : t.document # d
               /\ \A w \in Workers :
                     pc[w] # "idle" => req[w].document # d)

\* A conversion has failed and its request is over, and a later conversion
\* of the same user went through and was billed
C22_Witness ==
    \E d, e \in DOMAIN documents :
        /\ documents[d].status = "failed" /\ Settled(d)
        /\ e > d
        /\ documents[e].status = "completed"
        /\ documents[e].user = documents[d].user
        /\ \E t \in Range(transactions) :
              t.document = e /\ t.is_successful
====
